---- MODULE Spec2Model ----
(***************************************************************************)
(* Model of acvgis.CreatePointClusters (src/acvmlpy/ocml/acvgis.py) and of *)
(* its older split form acvclusters.create_clusterUUID /                   *)
(* calculate_object_coordinates (src/acvmlpy/acvgis_old.py): clustering of *)
(* the observations, generation of the cluster UUIDs, pairwise             *)
(* triangulation of the members of each cluster, aggregation of the        *)
(* pairwise results and write-back to the feature class.                   *)
(*                                                                         *)
(* Numbers are fixed-point integers: coordinates and distances are whole   *)
(* feet, slopes are thousandths (TanScale), angles are whole degrees.      *)
(***************************************************************************)
EXTENDS Integers, Sequences, FiniteSets, TLC

----------------------------------------------------------------------------
(* Bounds of the model *)

\* number of rows (observations) of the input feature class
MaxRows == 4

\* the clustering primitive returns labels in -1..MaxLabel
MaxLabel == 2

----------------------------------------------------------------------------
(* Arithmetic helpers *)

Abs(a) == IF a < 0 THEN -a ELSE a

\* a / b rounded to the nearest integer, b # 0 (float division, fixed point)
RoundDiv(a, b) ==
    IF b > 0 THEN (2 * a + b) \div (2 * b)
    ELSE (2 * (-a) + (-b)) \div (2 * (-b))

RECURSIVE SqrtSearch(_, _, _)
SqrtSearch(n, lo, hi) ==
    IF hi - lo <= 1 THEN lo
    ELSE LET mid == (lo + hi) \div 2
         IN IF mid * mid <= n THEN SqrtSearch(n, mid, hi)
            ELSE SqrtSearch(n, lo, mid)

\* math.sqrt, rounded down to whole feet (n below 2^31)
Sqrt(n) == SqrtSearch(n, 0, IF n < 46340 THEN n + 1 ELSE 46340)

RECURSIVE SumSeq(_)
SumSeq(s) == IF s = << >> THEN 0 ELSE Head(s) + SumSeq(Tail(s))

\* statistics.mean of a non-empty sequence
Mean(s) == RoundDiv(SumSeq(s), Len(s))

\* statistics.stdev (sample standard deviation, N-1 denominator), Len(s) >= 2
Stdev(s) ==
    LET m == Mean(s)
        sq == [k \in 1..Len(s) |-> (s[k] - m) * (s[k] - m)]
    IN Sqrt(RoundDiv(SumSeq(sq), Len(s) - 1))

RECURSIVE SortedSeq(_)
\* sorted(S) of a finite set of integers
SortedSeq(S) ==
    IF S = {} THEN << >>
    ELSE LET m == CHOOSE x \in S : \A y \in S : x <= y
         IN <<m>> \o SortedSeq(S \ {m})

----------------------------------------------------------------------------
(* str(point) in str(oid): decimal text of an id, substring test *)

RECURSIVE Str(_)
\* str(n) of a non-negative integer, as its sequence of decimal digits
Str(n) == IF n < 10 THEN <<n>> ELSE Append(Str(n \div 10), n % 10)

\* a in b, for two strings
StrIn(a, b) ==
    \E k \in 0..(Len(b) - Len(a)) : SubSeq(b, k + 1, k + Len(a)) = a

----------------------------------------------------------------------------
(* Geometry *)

TanScale == 1000

\* math.tan(theta): the argument is taken as RADIANS; the table holds
\* round(1000 * tan(theta rad)) for the bearings of the model
Tan(theta) ==
    CASE theta = 45  -> 1620
      [] theta = 315 -> 1117
      [] theta = 135 -> -89
      [] theta = 225 -> -2532
      [] theta = 15  -> -856
      [] theta = 105 -> 4028
      [] OTHER       -> 0

\* pyproj transform(inProj, outProj, x, y): x is the easting, y the northing;
\* the result is (longitude, latitude); the projection is abstracted to a
\* translation of the planar coordinates
transform(x, y) == <<x - 117000, y + 33000>>

----------------------------------------------------------------------------
(* Input rows *)

\* row i has the bearing of its position in OwnBearings; the first two rows
\* may have the bearing 45 instead (so that two rows can have equal bearings)
OwnBearings == <<135, 315, 225, 15, 105>>
Eastings    == <<0, 100, 0, 100, 50>>
Northings   == <<0, 0, 100, 100, 150>>

Wrap(s, i) == s[((i - 1) % Len(s)) + 1]

AllBearings == {45} \cup {OwnBearings[k] : k \in DOMAIN OwnBearings}

BearingChoices(i) ==
    IF i <= 2 THEN {45, Wrap(OwnBearings, i)} ELSE {Wrap(OwnBearings, i)}

\* OBJECTID1 of row i under the three id layouts
OIDLayouts == {"plain", "mixed", "first"}
OIDOf(layout, i) ==
    CASE layout = "plain" -> i
      [] layout = "mixed" -> IF i % 2 = 0 THEN 10 + i ELSE i
      [] layout = "first" -> IF i = 1 THEN 12 ELSE i

None == 0
Labels == -1..MaxLabel
\* the strings of uuid.uuid4(), modelled by their rank in sorted order
UUIDs(n) == 1..n

NoError == [kind |-> "none", ids |-> {}]
Raise(k) == [kind |-> k, ids |-> {}]

----------------------------------------------------------------------------
(* State *)

VARIABLES
    fcin,            \* rows of the input feature class (the observations)
    fpc,             \* rows of the point-cluster feature class (fcout)
    pc,              \* position in CreatePointClusters
    error,           \* the exception that ended the run, if any
    fcdict,          \* CLUSTER_ID -> generated UUID
    clusterUUIDlist, \* sorted list of the non-null ClusterUUIDs
    cidx,            \* index of the cluster of the current iteration
    pointdict,       \* rows of the current cluster, in cursor order
    combinationlist, \* pairs (positions in pointdict) of the current cluster
    pidx,            \* index of the pair of the current iteration
    objcoorddict,    \* results of the pairs of the current cluster
    rowdata,         \* per-point data of the last pair iteration
    rowdataBound,    \* whether the local name rowdata is bound
    point,           \* loop variable of the per-point loop (0: unbound)
    coordlist,       \* statistics used for the write-back
    response,        \* the list the function returns
    triangulated,    \* history: <<uuid, OID1, OID2>> of every pair computed
    dbscan,          \* what the clustering primitive answers for fcin
    firstRun,        \* feature class and fcdict left by an earlier run
    op,              \* the acvml function applied last
    args,            \* its arguments
    result,          \* its return value
    account,         \* the blob containers of the storage account
    gdb,             \* the feature datasets of the project geodatabase
    metaString,      \* the metadata dictionary of the photosphere at hand
    ncard,           \* number of cardinal crops of it that are processed
    cardinalMeta     \* the metadata stored with the last cardinal crop

vars == <<fcin, fpc, pc, error, fcdict, clusterUUIDlist, cidx, pointdict,
          combinationlist, pidx, objcoorddict, rowdata, rowdataBound, point,
          coordlist, response, triangulated, dbscan, firstRun, op, args,
          result, account, gdb, metaString, ncard, cardinalMeta>>

\* the storage account, the geodatabase's datasets and the photosphere
apart == <<account, gdb, metaString, ncard, cardinalMeta>>

\* none of them is in use
Apart ==
    /\ account = << >>
    /\ gdb = << >>
    /\ metaString = << >>
    /\ ncard = 0
    /\ cardinalMeta = << >>

\* what CreatePointClusters does not touch
outside == <<firstRun, op, args, result, apart>>

locals == <<cidx, pointdict, combinationlist, pidx, objcoorddict, rowdata,
            rowdataBound, point, coordlist, response, triangulated>>

Rows == 1..MaxRows

Init ==
    /\ \E layout \in OIDLayouts :
       \E bearing \in [Rows -> AllBearings] :
          /\ \A i \in Rows : bearing[i] \in BearingChoices(i)
          /\ fcin = [i \in Rows |->
                    [OBJECTID1       |-> OIDOf(layout, i),
                     ObjectDirection |-> bearing[i],
                     Northing        |-> Wrap(Northings, i),
                     Easting         |-> Wrap(Eastings, i)]]
    /\ fpc = << >>
    /\ pc = "step1"
    /\ error = NoError
    /\ fcdict = << >>
    /\ clusterUUIDlist = << >>
    /\ cidx = 0
    /\ pointdict = << >>
    /\ combinationlist = << >>
    /\ pidx = 0
    /\ objcoorddict = << >>
    /\ rowdata = << >>
    /\ rowdataBound = FALSE
    /\ point = 0
    /\ coordlist = << >>
    /\ response = << >>
    /\ triangulated = << >>
    /\ dbscan = << >>
    /\ firstRun = << >>
    /\ op = "none"
    /\ args = << >>
    /\ result = << >>
    /\ Apart

----------------------------------------------------------------------------
(* Step 1: arcpy.gapro.FindPointClusters (DBSCAN); the primitive is         *)
(* external, its label assignment is an input of the run.                   *)

\* the existing point-cluster feature class left in place
DeleteSkipped(fc) == fc

\* if fpc in arcpy.ListFeatureClasses(): arcpy.Delete_management(fpc)
Delete_management(fc) == << >>

\* the features the tool writes: the input rows with their labels
FeatureClassOf(rws, labels) ==
    [i \in DOMAIN rws |->
        [OBJECTID1       |-> rws[i].OBJECTID1,
         CLUSTER_ID      |-> labels[i],
         ClusterUUID     |-> None,
         ObjectDirection |-> rws[i].ObjectDirection,
         Northing        |-> rws[i].Northing,
         Easting         |-> rws[i].Easting,
         Aggregate       |-> << >>]]

\* the primitive is deterministic: on the same input, distance and minimum
\* number of members it answers what it answered before
FindPointClusters ==
    /\ pc = "step1"
    /\ \E labels \in [Rows -> Labels] :
          /\ dbscan # << >> => labels = dbscan
          /\ dbscan' = labels
          /\ fpc' = Delete_management(fpc) \o FeatureClassOf(fcin, labels)
    /\ pc' = "step2"
    /\ UNCHANGED <<outside, fcin, error, fcdict, clusterUUIDlist, locals>>

----------------------------------------------------------------------------
(* Step 2: cluster UUIDs *)

\* the guard of the update cursor: rows whose label gets the UUID written
LabelGetsUUID(label) == label > 0

\* clist without clist.remove(-1)
ClistKeepsNoise(rws) == SortedSeq({rws[i].CLUSTER_ID : i \in DOMAIN rws})

\* clist after sorted({...}) and clist.remove(-1)
Clist(rws) == SortedSeq({rws[i].CLUSTER_ID : i \in DOMAIN rws} \ {-1})

SeqRange(s) == {s[k] : k \in DOMAIN s}

\* number of identifiers uuid.uuid4() has handed out in an earlier run
Issued == IF firstRun = << >> THEN 0
          ELSE Cardinality(DOMAIN firstRun[1].fcdict)

\* uuid.uuid4() never repeats an identifier it has handed out
FreshUUIDs(n) == {Issued + k : k \in UUIDs(n)}

GenerateClusterUUID ==
    /\ pc = "step2"
    /\ IF -1 \notin {fpc[i].CLUSTER_ID : i \in DOMAIN fpc}
       THEN \* clist.remove(-1): ValueError, x not in list
            /\ error' = Raise("ValueError")
            /\ pc' = "raised"
            /\ UNCHANGED <<fpc, fcdict>>
       ELSE \E f \in [SeqRange(Clist(fpc)) -> FreshUUIDs(Len(Clist(fpc)))] :
            \* uuid.uuid4(): fresh, pairwise distinct identifiers
            /\ \A a, b \in DOMAIN f : a # b => f[a] # f[b]
            /\ fcdict' = f
            /\ fpc' = [i \in DOMAIN fpc |->
                        IF LabelGetsUUID(fpc[i].CLUSTER_ID)
                        THEN [fpc[i] EXCEPT !.ClusterUUID = f[fpc[i].CLUSTER_ID]]
                        ELSE fpc[i]]
            /\ pc' = "step4"
            /\ UNCHANGED error
    /\ UNCHANGED <<outside, dbscan, fcin, clusterUUIDlist, locals>>

----------------------------------------------------------------------------
(* Step 4: list of clusters *)

\* the non-null ClusterUUIDs in descending order
ClusterUUIDListDescending(rws) ==
    LET s == SortedSeq({rws[i].ClusterUUID : i \in DOMAIN rws} \ {None})
    IN [k \in 1..Len(s) |-> s[Len(s) + 1 - k]]

\* sorted({row[0] for row in cursor if row[0] is not None})
ClusterUUIDList(rws) ==
    SortedSeq({rws[i].ClusterUUID : i \in DOMAIN rws} \ {None})

ListClusters ==
    /\ pc = "step4"
    /\ clusterUUIDlist' = ClusterUUIDList(fpc)
    /\ coordlist' = << >>
    /\ response' = << >>
    /\ cidx' = 1
    /\ pc' = "cluster"
    /\ UNCHANGED <<outside, dbscan, fcin, fpc, error, fcdict, pointdict, combinationlist, pidx,
                   objcoorddict, rowdata, rowdataBound, point, triangulated>>

----------------------------------------------------------------------------
(* Step 4: per-cluster loop *)

\* pointdict of the cluster: the rows whose ClusterUUID equals cluster, in
\* cursor order, keyed by OBJECTID1
RECURSIVE SelectRows(_, _)
SelectRows(rws, cluster) ==
    IF rws = << >> THEN << >>
    ELSE IF Head(rws).ClusterUUID = cluster
         THEN <<Head(rws)>> \o SelectRows(Tail(rws), cluster)
         ELSE SelectRows(Tail(rws), cluster)

RECURSIVE CombinationsFrom(_, _, _)
\* itertools.combinations(ids, 2), as pairs of positions, in its order
CombinationsFrom(i, j, n) ==
    IF i >= n THEN << >>
    ELSE IF j > n THEN CombinationsFrom(i + 1, i + 2, n)
    ELSE <<(<<i, j>>)>> \o CombinationsFrom(i, j + 1, n)

\* combinations that leave out the last id
CombinationsShort(n) == CombinationsFrom(1, 2, n - 1)

Combinations(n) == CombinationsFrom(1, 2, n)

BeginCluster ==
    /\ pc = "cluster"
    /\ cidx <= Len(clusterUUIDlist)
    /\ pointdict' = SelectRows(fpc, clusterUUIDlist[cidx])
    /\ combinationlist' = Combinations(Len(pointdict'))
    /\ objcoorddict' = << >>
    /\ pidx' = 1
    /\ pc' = "pairs"
    /\ UNCHANGED <<outside, dbscan, fcin, fpc, error, fcdict, clusterUUIDlist, cidx, rowdata,
                   rowdataBound, point, coordlist, response, triangulated>>

\* the slopes of the two bearing lines
Slope(theta) == Tan(theta)

\* the result of one pair (objcoorddict[pairname]); p1, p2 rows of pointdict
\* (x is the northing and y the easting; the names lat/lon of the code hold
\* the first/second component of transform; x3, y3 keep the planar point)
PairEstimate(p1, p2) ==
    LET x1 == p1.Northing
        y1 == p1.Easting
        t1 == p1.ObjectDirection
        m1 == Slope(t1)
        x2 == p2.Northing
        y2 == p2.Easting
        t2 == p2.ObjectDirection
        m2 == Slope(t2)
        x3 == RoundDiv(TanScale * (y2 - y1) + (m1 * x1) - (m2 * x2), m1 - m2)
        y3 == y1 - RoundDiv(m1 * (x1 - x3), TanScale)
        ll1 == transform(y1, x1)
        ll2 == transform(y2, x2)
        ll3 == transform(y3, x3)
    IN [OID1 |-> p1.OBJECTID1,
        OID2 |-> p2.OBJECTID1,
        LatOID1 |-> ll1[1], LonOID1 |-> ll1[2],
        LatOID2 |-> ll2[1], LonOID2 |-> ll2[2],
        ObjDirOID1 |-> t1,
        ObjDirOID2 |-> t2,
        MeanObjDir |-> RoundDiv(t1 + t2, 2),
        LatObject |-> ll3[1], LonObject |-> ll3[2],
        DrivingDistance |-> Sqrt((x2 - x1) * (x2 - x1) + (y2 - y1) * (y2 - y1)),
        ObjDistanceOID1 |-> Sqrt((x3 - x1) * (x3 - x1) + (y3 - y1) * (y3 - y1)),
        ObjDistanceOID2 |-> Sqrt((x3 - x2) * (x3 - x2) + (y3 - y2) * (y3 - y2)),
        x3 |-> x3, y3 |-> y3]

\* `str(point) in str(objcoorddict[pair]['OID1'])` and the same for OID2
MatchesOID(pt, oid) == StrIn(Str(pt), Str(oid))

\* rowdata[oid] with the observation's own bearing under MeanObjDir
SampleOwnBearing(pt, ocd, k, slot) ==
    [OID |-> pt,
     LatOID |-> IF slot = 1 THEN ocd[k].LatOID1 ELSE ocd[k].LatOID2,
     LonOID |-> IF slot = 1 THEN ocd[k].LonOID1 ELSE ocd[k].LonOID2,
     LatObject |-> ocd[k].LatObject,
     LonObject |-> ocd[k].LonObject,
     DrivingDistance |-> ocd[k].DrivingDistance,
     objDistanceOID |-> IF slot = 1 THEN ocd[k].ObjDistanceOID1
                        ELSE ocd[k].ObjDistanceOID2,
     MeanObjDir |-> IF slot = 1 THEN ocd[k].ObjDirOID1 ELSE ocd[k].ObjDirOID2,
     pairOID1 |-> ocd[k].OID1,
     pairOID2 |-> ocd[k].OID2,
     slot |-> slot]

\* rowdata[oid] with the observation's own distance to the object under
\* DrivingDistance and its own position under LatObject, LonObject
SampleOwnPosition(pt, ocd, k, slot) ==
    [OID |-> pt,
     LatOID |-> IF slot = 1 THEN ocd[k].LatOID1 ELSE ocd[k].LatOID2,
     LonOID |-> IF slot = 1 THEN ocd[k].LonOID1 ELSE ocd[k].LonOID2,
     LatObject |-> IF slot = 1 THEN ocd[k].LatOID1 ELSE ocd[k].LatOID2,
     LonObject |-> IF slot = 1 THEN ocd[k].LonOID1 ELSE ocd[k].LonOID2,
     DrivingDistance |-> IF slot = 1 THEN ocd[k].ObjDistanceOID1
                         ELSE ocd[k].ObjDistanceOID2,
     objDistanceOID |-> IF slot = 1 THEN ocd[k].ObjDistanceOID1
                        ELSE ocd[k].ObjDistanceOID2,
     MeanObjDir |-> ocd[k].MeanObjDir,
     pairOID1 |-> ocd[k].OID1,
     pairOID2 |-> ocd[k].OID2,
     slot |-> slot]

\* rowdata[oid] filled from pair number k of ocd through indexlist1 (slot 1)
\* or indexlist2 (slot 2); pairOID1, pairOID2 and slot record where the data
\* came from
Sample(pt, ocd, k, slot) ==
    [OID |-> pt,
     LatOID |-> IF slot = 1 THEN ocd[k].LatOID1 ELSE ocd[k].LatOID2,
     LonOID |-> IF slot = 1 THEN ocd[k].LonOID1 ELSE ocd[k].LonOID2,
     LatObject |-> ocd[k].LatObject,
     LonObject |-> ocd[k].LonObject,
     DrivingDistance |-> ocd[k].DrivingDistance,
     objDistanceOID |-> IF slot = 1 THEN ocd[k].ObjDistanceOID1
                        ELSE ocd[k].ObjDistanceOID2,
     MeanObjDir |-> ocd[k].MeanObjDir,
     pairOID1 |-> ocd[k].OID1,
     pairOID2 |-> ocd[k].OID2,
     slot |-> slot]

\* rowdata[oid] after `for pair in objcoorddict`: every matching pair
\* overwrites all keys, so the last matching pair remains
RowDataOf(pt, ocd) ==
    LET hits == {k \in DOMAIN ocd :
                    MatchesOID(pt, ocd[k].OID1) \/ MatchesOID(pt, ocd[k].OID2)}
    IN IF hits = {} THEN << >>
       ELSE LET k == CHOOSE h \in hits : \A g \in hits : g <= h
            IN <<Sample(pt, ocd, k,
                        IF MatchesOID(pt, ocd[k].OID1) THEN 1 ELSE 2)>>

\* rowdata after `for point in pointdict`: one entry per point, in order;
\* an entry is << >> (the empty dict) or <<sample>>
RowData(pd, ocd) ==
    [n \in DOMAIN pd |-> RowDataOf(pd[n].OBJECTID1, ocd)]

TriangulatePair ==
    /\ pc = "pairs"
    /\ pidx <= Len(combinationlist)
    /\ LET p1 == pointdict[combinationlist[pidx][1]]
           p2 == pointdict[combinationlist[pidx][2]]
       IN IF Slope(p1.ObjectDirection) - Slope(p2.ObjectDirection) = 0
          THEN \* x3 = ... / (mu1 - mu2): ZeroDivisionError, not caught
               /\ error' = Raise("ZeroDivisionError")
               /\ pc' = "raised"
               /\ UNCHANGED <<pidx, objcoorddict, rowdata, rowdataBound, point,
                              triangulated>>
          ELSE /\ objcoorddict' = Append(objcoorddict, PairEstimate(p1, p2))
               /\ rowdata' = RowData(pointdict, objcoorddict')
               /\ rowdataBound' = TRUE
               /\ point' = pointdict[Len(pointdict)].OBJECTID1
               /\ triangulated' = Append(triangulated,
                     <<clusterUUIDlist[cidx], p1.OBJECTID1, p2.OBJECTID1>>)
               /\ pidx' = pidx + 1
               /\ UNCHANGED <<error, pc>>
    /\ UNCHANGED <<outside, dbscan, fcin, fpc, fcdict, clusterUUIDlist, cidx, pointdict,
                   combinationlist, coordlist, response>>

Column(rd, f) == [n \in DOMAIN rd |-> rd[n][1][f]]

\* the tuple appended to coordlist and response
ClusterStatistics(pt, cluster, rd) ==
    [point |-> pt,
     cluster |-> cluster,
     LatOIDMean |-> Mean(Column(rd, "LatOID")),
     LatOIDStd |-> Stdev(Column(rd, "LatOID")),
     LonOIDMean |-> Mean(Column(rd, "LonOID")),
     LonOIDStd |-> Stdev(Column(rd, "LonOID")),
     LatObjMean |-> Mean(Column(rd, "LatObject")),
     LatObjStd |-> Stdev(Column(rd, "LatObject")),
     LonObjMean |-> Mean(Column(rd, "LonObject")),
     LonObjStd |-> Stdev(Column(rd, "LonObject")),
     DrivDistMean |-> Mean(Column(rd, "DrivingDistance")),
     DrivDistStd |-> Stdev(Column(rd, "DrivingDistance")),
     ObjDistOIDMean |-> Mean(Column(rd, "objDistanceOID")),
     ObjDistOIDStd |-> Stdev(Column(rd, "objDistanceOID")),
     ObjDirMean |-> Mean(Column(rd, "MeanObjDir")),
     ObjDirStd |-> Stdev(Column(rd, "MeanObjDir")),
     GoogleAPIObj |-> <<Mean(Column(rd, "LonObject")),
                        Mean(Column(rd, "LatObject")),
                        Mean(Column(rd, "MeanObjDir"))>>,
     samples |-> rd]

AggregateCluster ==
    /\ pc = "pairs"
    /\ pidx > Len(combinationlist)
    /\ IF ~rowdataBound
       THEN \* rowdata is assigned only inside the pair loop
            /\ error' = Raise("UnboundLocalError")
            /\ pc' = "raised"
            /\ UNCHANGED <<cidx, coordlist, response>>
       ELSE IF \E n \in DOMAIN rowdata : rowdata[n] = << >>
       THEN \* rowdata[i]['LatOID'] of an empty entry
            /\ error' = Raise("KeyError")
            /\ pc' = "raised"
            /\ UNCHANGED <<cidx, coordlist, response>>
       ELSE IF Len(rowdata) < 2
       THEN \* statistics.stdev needs two data points
            /\ error' = Raise("StatisticsError")
            /\ pc' = "raised"
            /\ UNCHANGED <<cidx, coordlist, response>>
       ELSE LET c == ClusterStatistics(point, clusterUUIDlist[cidx], rowdata)
            IN /\ coordlist' = Append(coordlist, c)
               /\ response' = Append(response, c)
               /\ cidx' = cidx + 1
               /\ pc' = "cluster"
               /\ UNCHANGED error
    /\ UNCHANGED <<outside, dbscan, fcin, fpc, fcdict, clusterUUIDlist, pointdict,
                   combinationlist, pidx, objcoorddict, rowdata, rowdataBound,
                   point, triangulated>>

----------------------------------------------------------------------------
(* Step 4: write-back of the statistics *)

\* the row after a write that also stores the mean bearing as the bearing
WriteAggregateAndBearing(row, c) ==
    [row EXCEPT !.ObjectDirection = c.ObjDirMean,
                !.Aggregate =
                   <<[LatObjMean |-> c.LatObjMean,
                      LatObjStd |-> c.LatObjStd,
                      LonObjMean |-> c.LonObjMean,
                      LonObjStd |-> c.LonObjStd,
                      DrivDistMean |-> c.DrivDistMean,
                      DrivDistStd |-> c.DrivDistStd,
                      ObjDistOIDMean |-> c.ObjDistOIDMean,
                      ObjDistOIDStd |-> c.ObjDistOIDStd,
                      ObjDirMean |-> c.ObjDirMean,
                      ObjDirStd |-> c.ObjDirStd,
                      GoogleAPIObj |-> c.GoogleAPIObj]>>]

\* the row after row[1] = c[6]; ...; row[11] = c[16]: the eleven aggregate
\* fields; row[0] (ClusterUUID) and row[12] (ObjectDirection) are read back
\* as they were
WriteAggregate(row, c) ==
    [row EXCEPT !.Aggregate =
                   <<[LatObjMean |-> c.LatObjMean,
                      LatObjStd |-> c.LatObjStd,
                      LonObjMean |-> c.LonObjMean,
                      LonObjStd |-> c.LonObjStd,
                      DrivDistMean |-> c.DrivDistMean,
                      DrivDistStd |-> c.DrivDistStd,
                      ObjDistOIDMean |-> c.ObjDistOIDMean,
                      ObjDistOIDStd |-> c.ObjDistOIDStd,
                      ObjDirMean |-> c.ObjDirMean,
                      ObjDirStd |-> c.ObjDirStd,
                      GoogleAPIObj |-> c.GoogleAPIObj]>>]

\* the row after `for c in coordlist: if row[0] == c[1]: row[1..11] = ...`
RECURSIVE UpdateRow(_, _)
UpdateRow(row, cl) ==
    IF cl = << >> THEN row
    ELSE LET c == Head(cl)
             r == IF row.ClusterUUID = c.cluster
                  THEN WriteAggregate(row, c)
                  ELSE row
         IN UpdateRow(r, Tail(cl))

UpdateFeatureClass ==
    /\ pc = "cluster"
    /\ cidx > Len(clusterUUIDlist)
    /\ fpc' = [i \in DOMAIN fpc |-> UpdateRow(fpc[i], coordlist)]
    /\ pc' = "done"
    /\ UNCHANGED <<outside, dbscan, fcin, error, fcdict, clusterUUIDlist, locals>>

----------------------------------------------------------------------------

Next ==
    \/ FindPointClusters
    \/ GenerateClusterUUID
    \/ ListClusters
    \/ BeginCluster
    \/ TriangulatePair
    \/ AggregateCluster
    \/ UpdateFeatureClass

Spec == Init /\ [][Next]_vars

----------------------------------------------------------------------------
(* A second run on unchanged input: steps 1 and 2 (create_point_clusters   *)
(* and create_clusterUUID of acvgis_old.py) are called again; the feature  *)
(* class of the first run is still in the geodatabase.                     *)

Rerun ==
    /\ pc = "step4"
    /\ firstRun = << >>
    /\ firstRun' = <<[fpc |-> fpc, fcdict |-> fcdict]>>
    /\ fcdict' = << >>
    /\ pc' = "step1"
    /\ UNCHANGED <<dbscan, op, args, result, apart, fcin, fpc, error,
                   clusterUUIDlist, locals>>

NextRerun ==
    \/ FindPointClusters
    \/ GenerateClusterUUID
    \/ Rerun

SpecRerun == Init /\ [][NextRerun]_vars

\* what the call returns: response on normal completion, nothing when an
\* exception ended the run
Returned == IF pc = "done" THEN response ELSE << >>

\* the failure manifest of the run: the function keeps none
manifest == << >>

TypeOK ==
    /\ pc \in {"step1", "step2", "step4", "cluster", "pairs", "done", "raised"}
    /\ (pc = "raised") = (error # NoError)

----------------------------------------------------------------------------
(* Vocabulary of the properties *)

RunEnded == pc \in {"done", "raised"}

\* the clusters of the run: the non-null ClusterUUIDs of the feature class
ClusterIds == {fpc[i].ClusterUUID : i \in DOMAIN fpc} \ {None}

MemberRows(u) == {i \in DOMAIN fpc : fpc[i].ClusterUUID = u}
MemberOIDs(u) == {fpc[i].OBJECTID1 : i \in MemberRows(u)}

RowOfOID(oid) == CHOOSE i \in DOMAIN fpc : fpc[i].OBJECTID1 = oid

\* the two bearing lines have equal slopes
EqualSlopes(i, j) ==
    Slope(fpc[i].ObjectDirection) = Slope(fpc[j].ObjectDirection)

\* position of cluster u in the iteration order
RECURSIVE IndexOf(_, _)
IndexOf(sq, x) == IF Head(sq) = x THEN 1 ELSE 1 + IndexOf(Tail(sq), x)

\* the iteration of cluster u has started
ClusterBegun(u) ==
    /\ pc \in {"cluster", "pairs", "done", "raised"}
    /\ u \in SeqRange(clusterUUIDlist)
    /\ \/ IndexOf(clusterUUIDlist, u) < cidx
       \/ IndexOf(clusterUUIDlist, u) = cidx /\ pc \in {"pairs", "raised"}

\* the pair loop of cluster u has run to its end
PairLoopFinished(u) ==
    /\ ClusterBegun(u)
    /\ \/ IndexOf(clusterUUIDlist, u) < cidx
       \/ pc = "pairs" /\ pidx > Len(combinationlist)
       \/ pc = "raised" /\ pidx > Len(combinationlist)

TriangulatedPairs(u) ==
    {{t[2], t[3]} : t \in {x \in SeqRange(triangulated) : x[1] = u}}

RecordsOf(sq, u) == {k \in DOMAIN sq : sq[k].cluster = u}

\* a cluster that cannot be aggregated: fewer than two members (no pair, so
\* fewer than 2 samples) or every pair with equal slopes
CannotAggregate(u) ==
    \/ Cardinality(MemberRows(u)) < 2
    \/ \A i, j \in MemberRows(u) : i # j => EqualSlopes(i, j)

\* a cluster every pair of which has an intersection
FullyTriangulable(u) ==
    /\ Cardinality(MemberRows(u)) >= 2
    /\ \A i, j \in MemberRows(u) : i # j => ~EqualSlopes(i, j)

----------------------------------------------------------------------------
(* C1: in a run in which exactly one cluster cannot be aggregated, the run *)
(* returns one aggregate record for each of the other clusters and the     *)
(* failure manifest has exactly one entry, for the failing cluster.        *)

C1_PartialFailureIsolation ==
    (/\ RunEnded
     /\ Cardinality(ClusterIds) >= 2
     /\ clusterUUIDlist # << >>
     /\ Cardinality({u \in ClusterIds : CannotAggregate(u)}) = 1
     /\ \A u \in ClusterIds : CannotAggregate(u) \/ FullyTriangulable(u))
    =>
    (/\ \A u \in ClusterIds :
          IF CannotAggregate(u)
          THEN RecordsOf(Returned, u) = {}
          ELSE Cardinality(RecordsOf(Returned, u)) = 1
     /\ Len(manifest) = 1
     /\ CannotAggregate(manifest[1].cluster))

(* C2: when a pair of a cluster has equal slopes and other pairs of the   *)
(* cluster have not, only that pair is skipped: once the run has ended,    *)
(* every other pair of the cluster has been triangulated and no exception  *)
(* has ended the run.                                                      *)

C2_ParallelPairSkippedOnly ==
    \A u \in ClusterIds :
      (/\ RunEnded
       /\ ClusterBegun(u)
       /\ \E i, j \in MemberRows(u) : i # j /\ EqualSlopes(i, j)
       /\ \E i, j \in MemberRows(u) : ~EqualSlopes(i, j))
      =>
      (/\ error = NoError
       /\ \A i, j \in MemberRows(u) :
             (i # j /\ ~EqualSlopes(i, j)) =>
                {fpc[i].OBJECTID1, fpc[j].OBJECTID1} \in TriangulatedPairs(u))

(* C3: triangulating a pair with identical bearings signals a              *)
(* ParallelBearingsError naming both observation ids and stores no         *)
(* estimate for the pair.                                                  *)

\* pair number k of the current cluster has been handed to the triangulation
PairAttempted(k) ==
    /\ pc \in {"pairs", "raised"}
    /\ k \in DOMAIN combinationlist
    /\ k < pidx \/ (k = pidx /\ pc = "raised")

C3_ParallelBearingsError ==
    \A k \in DOMAIN combinationlist :
      LET p1 == pointdict[combinationlist[k][1]]
          p2 == pointdict[combinationlist[k][2]]
      IN (PairAttempted(k) /\ p1.ObjectDirection = p2.ObjectDirection)
         =>
         (/\ error.kind = "ParallelBearingsError"
          /\ error.ids = {p1.OBJECTID1, p2.OBJECTID1}
          /\ \A e \in SeqRange(objcoorddict) :
                {e.OID1, e.OID2} # {p1.OBJECTID1, p2.OBJECTID1})

(* C4: the statistics of a cluster of n >= 2 observations all of whose     *)
(* pairs are triangulated are computed over n(n-1) samples, n-1 for each   *)
(* observation.                                                            *)

SamplesOf(rec, oid) ==
    {n \in DOMAIN rec.samples :
        rec.samples[n] # << >> /\ rec.samples[n][1].OID = oid}

C4_SamplesPerPairAndMember ==
    \A k \in DOMAIN response :
      LET u == response[k].cluster
          n == Cardinality(MemberRows(u))
      IN (n >= 2 /\ FullyTriangulable(u))
         =>
         (/\ Len(response[k].samples) = n * (n - 1)
          /\ \A oid \in MemberOIDs(u) :
                Cardinality(SamplesOf(response[k], oid)) = n - 1)

(* C5: every sample attributed to an observation comes from a pair of      *)
(* which the observation is a member, and carries the observation's own    *)
(* distance to the object (d1 for the first member, d2 for the second).    *)

C5_SamplesFromOwnPairs ==
    (pc = "pairs" /\ rowdataBound /\ pidx > 1) =>
    \A n \in DOMAIN rowdata :
      rowdata[n] # << >> =>
        LET smp == rowdata[n][1]
        IN /\ smp.OID \in {smp.pairOID1, smp.pairOID2}
           /\ smp.slot = (IF smp.OID = smp.pairOID1 THEN 1 ELSE 2)

(* C6: for two observations with non-parallel bearings the triangulated    *)
(* point lies on both bearing lines (through the capture point, direction  *)
(* the bearing in degrees clockwise from north) and DrivingDistance is the *)
(* distance between the capture points; capture points (0,0) and (100,0)   *)
(* with bearings 45 and 315 give (50,50) and 100.                          *)

\* tan of a bearing in DEGREES, in thousandths
TanDegrees(theta) ==
    CASE theta = 45  -> 1000
      [] theta = 315 -> -1000
      [] theta = 135 -> -1000
      [] theta = 225 -> 1000
      [] theta = 15  -> 268
      [] theta = 105 -> -3732
      [] OTHER       -> 0

\* the bearing lines of two bearings in degrees are parallel
ParallelBearings(t1, t2) == (t1 - t2) % 180 = 0

\* (northing, easting) is on the bearing line of row, up to the rounding of
\* the fixed-point arithmetic (two feet)
OnBearingLine(northing, easting, row) ==
    Abs(TanScale * (easting - row.Easting)
        - TanDegrees(row.ObjectDirection) * (northing - row.Northing))
      <= 2 * (TanScale + Abs(TanDegrees(row.ObjectDirection)))

C6_IntersectionOnBothLines ==
    \A k \in DOMAIN objcoorddict :
      LET e == objcoorddict[k]
          r1 == fpc[RowOfOID(e.OID1)]
          r2 == fpc[RowOfOID(e.OID2)]
      IN ~ParallelBearings(r1.ObjectDirection, r2.ObjectDirection)
         =>
         (/\ OnBearingLine(e.x3, e.y3, r1)
          /\ OnBearingLine(e.x3, e.y3, r2)
          /\ e.DrivingDistance * e.DrivingDistance
               <= (r1.Easting - r2.Easting) * (r1.Easting - r2.Easting)
                  + (r1.Northing - r2.Northing) * (r1.Northing - r2.Northing)
          /\ (/\ r1.Easting = 0 /\ r1.Northing = 0 /\ r1.ObjectDirection = 45
              /\ r2.Easting = 100 /\ r2.Northing = 0
              /\ r2.ObjectDirection = 315)
             => (/\ Abs(e.x3 - 50) <= 1 /\ Abs(e.y3 - 50) <= 1
                 /\ e.DrivingDistance = 100))

(* C7: no aggregate is emitted for a cluster with fewer than 2 members: a  *)
(* cluster of size 1 is excluded from aggregation and from the records.    *)

C7_NoAggregateForSingleton ==
    \A k \in DOMAIN response :
       Cardinality(MemberRows(response[k].cluster)) >= 2

(* C8: the pairs triangulated for a cluster are exactly the unordered      *)
(* pairs of two distinct members of it: every triangulated pair joins two  *)
(* different rows of the same cluster, no pair is triangulated twice, and  *)
(* when the pair loop of a cluster has finished every pair of its members  *)
(* has been triangulated.                                                  *)

C9_EveryLabelGetsItsUUID ==
    (pc \in {"step4", "cluster", "pairs", "done"}) =>
    /\ \A i \in DOMAIN fpc :
          fpc[i].CLUSTER_ID # -1 =>
             /\ fpc[i].CLUSTER_ID \in DOMAIN fcdict
             /\ fpc[i].ClusterUUID = fcdict[fpc[i].CLUSTER_ID]
    /\ \A i, j \in DOMAIN fpc :
          (fpc[i].CLUSTER_ID # -1 /\ fpc[j].CLUSTER_ID # -1) =>
             ((fpc[i].CLUSTER_ID = fpc[j].CLUSTER_ID)
                = (fpc[i].ClusterUUID = fpc[j].ClusterUUID))

(* C10: a row with the noise label -1 never gets a ClusterUUID, no cluster *)
(* is created for the label, and the row is in no triangulated pair and in *)
(* no aggregate.                                                           *)

C10_NoiseRowsStayOut ==
    /\ -1 \notin DOMAIN fcdict
    /\ \A i \in DOMAIN fpc :
          fpc[i].CLUSTER_ID = -1 =>
             /\ fpc[i].ClusterUUID = None
             /\ fpc[i].Aggregate = << >>
             /\ \A t \in SeqRange(triangulated) :
                   fpc[i].OBJECTID1 \notin {t[2], t[3]}
             /\ \A k \in DOMAIN response :
                   /\ response[k].point # fpc[i].OBJECTID1
                   /\ SamplesOf(response[k], fpc[i].OBJECTID1) = {}

C10_Witness ==
    /\ pc = "done"
    /\ \E i \in DOMAIN fpc : fpc[i].CLUSTER_ID = -1
    /\ Len(Returned) >= 1
    /\ \E i \in DOMAIN fpc : fpc[i].Aggregate # << >>

----------------------------------------------------------------------------
(* Two runs on unchanged input *)

\* steps 1 and 2 have run a second time
SecondRunDone == firstRun # << >> /\ pc = "step4"

\* the clusters of a feature class as sets of features
Partition(fc) ==
    {{i \in DOMAIN fc : fc[i].ClusterUUID = u} :
        u \in {fc[i].ClusterUUID : i \in DOMAIN fc} \ {None}}

(* C11: after a second run of the clustering and identifier steps on       *)
(* unchanged input every row carries the ClusterUUID it had after the      *)
(* first run.                                                              *)

C11_ClusterIdReused ==
    SecondRunDone =>
       \A i \in DOMAIN fpc :
          fpc[i].ClusterUUID = firstRun[1].fpc[i].ClusterUUID

(* C12: with a deterministic primitive, the second run on unchanged input  *)
(* rebuilds the feature class from the input alone and partitions the      *)
(* observations into the same membership sets as the first run.            *)

C12_SamePartition ==
    SecondRunDone =>
       /\ DOMAIN fpc = DOMAIN firstRun[1].fpc
       /\ Partition(fpc) = Partition(firstRun[1].fpc)

C12_Witness ==
    /\ SecondRunDone
    /\ Cardinality(Partition(fpc)) = 2
    /\ \E m \in Partition(fpc) : Cardinality(m) >= 2
    /\ \A i \in DOMAIN fpc :
          fpc[i].ClusterUUID # None =>
             fpc[i].ClusterUUID # firstRun[1].fpc[i].ClusterUUID

----------------------------------------------------------------------------
(* Cluster lifecycle *)

\* the lifecycle state of cluster u: Aggregated once its record is in the
\* response, Failed when the exception was raised in its iteration,
\* Triangulated once its pair loop has run to its end, Clustered before
ClusterState(u) ==
    IF RecordsOf(response, u) # {} THEN "Aggregated"
    ELSE IF /\ pc = "raised"
            /\ u \in SeqRange(clusterUUIDlist)
            /\ IndexOf(clusterUUIDlist, u) = cidx THEN "Failed"
    ELSE IF PairLoopFinished(u) THEN "Triangulated"
    ELSE "Clustered"

(* C13: every cluster that enters the pipeline reaches Aggregated or       *)
(* Failed: when the run has ended no cluster is left in Clustered or       *)
(* Triangulated.                                                           *)

C13_EveryClusterTerminates ==
    RunEnded =>
       \A u \in ClusterIds : ClusterState(u) \in {"Aggregated", "Failed"}

(* C14: a run that completes returns exactly one aggregate record per      *)
(* distinct non-null ClusterUUID, in ascending order of the ClusterUUIDs,  *)
(* whatever the order of the rows in the feature class.                    *)

----------------------------------------------------------------------------
(* Aggregated bearing *)

\* the bearing of the observation with identifier oid
BearingOfOID(oid) == fpc[RowOfOID(oid)].ObjectDirection

\* the own bearings of the observations the samples are attributed to
MemberBearings(rd) == [n \in DOMAIN rd |-> BearingOfOID(rd[n][1].OID)]

\* for every sample, the mean bearing (t1 + t2) / 2 of the pair it is from
PairMeanBearings(rd) ==
    [n \in DOMAIN rd |->
        RoundDiv(BearingOfOID(rd[n][1].pairOID1)
                   + BearingOfOID(rd[n][1].pairOID2), 2)]

(* C15, as stated: ObjDirMean and ObjDirStd of every aggregate are the     *)
(* mean and the standard deviation of the own bearings (ObjectDirection)   *)
(* of the observations of its samples.                                     *)

C15_OverOwnBearings ==
    \A k \in DOMAIN response :
       /\ response[k].ObjDirMean = Mean(MemberBearings(response[k].samples))
       /\ response[k].ObjDirStd = Stdev(MemberBearings(response[k].samples))

(* C15, amended: ObjDirMean and ObjDirStd of every aggregate are the mean  *)
(* and the standard deviation, over its samples, of the mean bearing       *)
(* (t1 + t2) / 2 of the pair each sample is taken from.                    *)

C15_OverPairMeanBearings ==
    \A k \in DOMAIN response :
       /\ response[k].ObjDirMean = Mean(PairMeanBearings(response[k].samples))
       /\ response[k].ObjDirStd = Stdev(PairMeanBearings(response[k].samples))

\* an aggregate over three samples whose pair means differ from one another
\* and whose mean differs from the mean of the own bearings
C15_Witness ==
    \E k \in DOMAIN response :
       /\ Len(response[k].samples) = 3
       /\ response[k].ObjDirStd > 0
       /\ response[k].ObjDirMean # Mean(MemberBearings(response[k].samples))

----------------------------------------------------------------------------
(* Geographic coordinates *)

\* transform returns <<longitude, latitude>> for (easting, northing)
LongitudeOf(easting, northing) == transform(easting, northing)[1]
LatitudeOf(easting, northing) == transform(easting, northing)[2]

(* C16: what a pairwise estimate stores as LatObject is the latitude of    *)
(* the intersection (easting y3, northing x3) and what it stores as        *)
(* LonObject its longitude; LatObjMean and LonObjMean are the means of     *)
(* these, and the viewer URL is built from LonObjMean, LatObjMean and      *)
(* ObjDirMean.                                                             *)

C16_LatitudeStoredAsLatitude ==
    /\ \A e \in SeqRange(objcoorddict) :
          /\ e.LatObject = LatitudeOf(e.y3, e.x3)
          /\ e.LonObject = LongitudeOf(e.y3, e.x3)
    /\ \A k \in DOMAIN response :
          /\ response[k].LatObjMean
                = Mean(Column(response[k].samples, "LatObject"))
          /\ response[k].LonObjMean
                = Mean(Column(response[k].samples, "LonObject"))
          /\ response[k].GoogleAPIObj
                = <<response[k].LonObjMean, response[k].LatObjMean,
                    response[k].ObjDirMean>>

----------------------------------------------------------------------------
(* Frame of step 4 *)

\* what a row says about the observation
Observation(row) ==
    [OBJECTID1       |-> row.OBJECTID1,
     CLUSTER_ID      |-> row.CLUSTER_ID,
     ClusterUUID     |-> row.ClusterUUID,
     ObjectDirection |-> row.ObjectDirection,
     Northing        |-> row.Northing,
     Easting         |-> row.Easting]

\* a step of step 4 leaves the observations alone
Step4KeepsObservations ==
    pc \in {"step4", "cluster", "pairs"} =>
       /\ DOMAIN fpc' = DOMAIN fpc
       /\ \A i \in DOMAIN fpc :
             /\ Observation(fpc'[i]) = Observation(fpc[i])
             /\ fpc'[i].Aggregate # fpc[i].Aggregate =>
                   RecordsOf(coordlist, fpc[i].ClusterUUID) # {}

(* C17: no step of triangulation, aggregation and write-back changes the   *)
(* observation of a row (identifier, cluster label, ClusterUUID, bearing,  *)
(* northing, easting); the aggregate fields change only on rows whose      *)
(* ClusterUUID is that of a cluster with a record in coordlist.            *)

C17_Step4KeepsObservations == [][Step4KeepsObservations]_vars

\* the write-back has written the aggregate of a cluster whose mean bearing
\* is not the bearing of the row, and has left a row without cluster alone
C17_Witness ==
    /\ pc = "done"
    /\ \E i \in DOMAIN fpc :
          /\ fpc[i].Aggregate # << >>
          /\ fpc[i].Aggregate[1].ObjDirMean # fpc[i].ObjectDirection
          /\ fpc[i].ObjectDirection = fcin[i].ObjectDirection
    /\ \E j \in DOMAIN fpc :
          fpc[j].ClusterUUID = None /\ fpc[j].Aggregate = << >>

----------------------------------------------------------------------------
(* acvml: degree arithmetic and cardinal sectors.  Angles are carried in   *)
(* millionths of a degree.                                                 *)

MaxTurns == 2

\* d degrees
Deg(d) == d * 1000000

\* the sum with half a turn taken off
CheckDegreesHalfTurn(x, y) ==
    LET sumdeg == x + y
    IN IF sumdeg > Deg(360) THEN sumdeg - Deg(180) ELSE sumdeg

\* sumdeg = x + y; if sumdeg > 360: sumdeg = sumdeg - 360
CheckDegrees(x, y) ==
    LET sumdeg == x + y
    IN IF sumdeg > Deg(360) THEN sumdeg - Deg(360) ELSE sumdeg

\* round(value, 3): the nearest thousandth of a degree (a tie goes to the
\* even thousandth)
Round3(value) ==
    LET q == value \div 1000
        r == value % 1000
    IN IF r < 500 THEN q * 1000
       ELSE IF r > 500 THEN (q + 1) * 1000
       ELSE IF q % 2 = 0 THEN q * 1000 ELSE (q + 1) * 1000

\* cardinalDictionary, in the order of the dict: <<direction, low, high>>
cardinalDictionary ==
    <<
       <<"N0", 0, 5625000>>,
       <<"NbE", 5625000, 16875000>>,
       <<"NNE", 16875000, 28125000>>,
       <<"NEbN", 28125000, 39375000>>,
       <<"NE", 39375000, 50625000>>,
       <<"NEbE", 50625000, 61875000>>,
       <<"ENE", 61875000, 73125000>>,
       <<"EbN", 73125000, 84375000>>,
       <<"E", 84375000, 95625000>>,
       <<"EbS", 95625000, 106875000>>,
       <<"ESE", 106875000, 118125000>>,
       <<"SEbE", 118125000, 129375000>>,
       <<"SE", 129375000, 140625000>>,
       <<"SEbS", 140625000, 151875000>>,
       <<"SSE", 151875000, 163125000>>,
       <<"SbE", 163125000, 174375000>>,
       <<"S", 174375000, 185625000>>,
       <<"SbW", 185625000, 196875000>>,
       <<"SSW", 196875000, 208125000>>,
       <<"SWbS", 208125000, 219375000>>,
       <<"SW", 219375000, 230625000>>,
       <<"SWbW", 230625000, 241875000>>,
       <<"WSW", 241875000, 253125000>>,
       <<"WbS", 253125000, 264375000>>,
       <<"W", 264375000, 275625000>>,
       <<"WbN", 275625000, 286875000>>,
       <<"WNW", 286875000, 298125000>>,
       <<"NWbW", 298125000, 309375000>>,
       <<"NW", 309375000, 320625000>>,
       <<"NWbN", 320625000, 331875000>>,
       <<"NNW", 331875000, 343125000>>,
       <<"NbW", 343125000, 354375000>>,
       <<"N1", 354375000, 360000001>>
    >>

\* the sectors whose test `low <= round(value, 3) < high` succeeds
SectorsOf(value) ==
    {k \in DOMAIN cardinalDictionary :
        /\ cardinalDictionary[k][2] <= Round3(value)
        /\ Round3(value) < cardinalDictionary[k][3]}

\* the direction of the matching sector returned as it is
CheckCardinalityRaw(value) ==
    IF SectorsOf(value) = {} THEN "UnboundLocalError"
    ELSE LET k == CHOOSE h \in SectorsOf(value) :
                     \A g \in SectorsOf(value) : g <= h
         IN cardinalDictionary[k][1]

\* the loop has no break: the last sector that matches sets cardinalDir; with
\* no match cardinalDir is unbound at the return
CheckCardinality(value) ==
    IF SectorsOf(value) = {} THEN "UnboundLocalError"
    ELSE LET k == CHOOSE h \in SectorsOf(value) :
                     \A g \in SectorsOf(value) : g <= h
             direction == cardinalDictionary[k][1]
         IN IF direction = "N0" \/ direction = "N1" THEN "N" ELSE direction

\* math.degrees(math.atan2(x, y)) of the direction vectors of the model,
\* rounded to the millionth of a degree; atan2(0, 0) is 0
Atan2Degrees(x, y) ==
    CASE x = -2 /\ y = -2 -> -135000000
      [] x = -2 /\ y = -1 -> -116565051
      [] x = -2 /\ y = 0 -> -90000000
      [] x = -2 /\ y = 1 -> -63434949
      [] x = -2 /\ y = 2 -> -45000000
      [] x = -1 /\ y = -2 -> -153434949
      [] x = -1 /\ y = -1 -> -135000000
      [] x = -1 /\ y = 0 -> -90000000
      [] x = -1 /\ y = 1 -> -45000000
      [] x = -1 /\ y = 2 -> -26565051
      [] x = 0 /\ y = -2 -> 180000000
      [] x = 0 /\ y = -1 -> 180000000
      [] x = 0 /\ y = 0 -> 0
      [] x = 0 /\ y = 1 -> 0
      [] x = 0 /\ y = 2 -> 0
      [] x = 1 /\ y = -2 -> 153434949
      [] x = 1 /\ y = -1 -> 135000000
      [] x = 1 /\ y = 0 -> 90000000
      [] x = 1 /\ y = 1 -> 45000000
      [] x = 1 /\ y = 2 -> 26565051
      [] x = 2 /\ y = -2 -> 135000000
      [] x = 2 /\ y = -1 -> 116565051
      [] x = 2 /\ y = 0 -> 90000000
      [] x = 2 /\ y = 1 -> 63434949
      [] x = 2 /\ y = 2 -> 45000000
      [] x = 382683432 /\ y = 923879533 -> 22500000
      [] x = 923879533 /\ y = 382683432 -> 67500000
      [] x = 923879533 /\ y = -382683432 -> 112500000
      [] x = 382683432 /\ y = -923879533 -> 157500000
      [] x = -382683432 /\ y = -923879533 -> -157500000
      [] x = -923879533 /\ y = -382683432 -> -112500000
      [] x = -923879533 /\ y = 382683432 -> -67500000
      [] x = -382683432 /\ y = 923879533 -> -22500000

\* deg = math.degrees(math.atan2(x, y)); if deg < 0: (deg + 360) % 360
GetDirection(x, y) ==
    LET deg == Atan2Degrees(x, y)
    IN IF deg < 0 THEN (deg + Deg(360)) % Deg(360) ELSE deg

\* (DirectionEasting, DirectionNorthing) of a photosphere: the vectors with
\* coordinates in -2..2, the zero vector among them, and the eight
\* directions at the odd multiples of 22.5 degrees (unit vectors, in
\* billionths)
DirectionVectors ==
    {<<x, y>> : x \in -2..2, y \in -2..2} \cup
    {
     <<382683432, 923879533>>, <<923879533, 382683432>>,
     <<923879533, -382683432>>, <<382683432, -923879533>>,
     <<-382683432, -923879533>>, <<-923879533, -382683432>>,
     <<-923879533, 382683432>>, <<-382683432, 923879533>>
    }

\* the crop direction as the plain sum
CardinalDirUnchecked(direction, n) ==
    direction + 22500000 + n * Deg(45)

\* cardinalDir = CheckDegrees(cmeta['Direction'], 22.5), then
\* cardinalDir = CheckDegrees(cardinalDir, ncard * 45.0)
CardinalDir(direction, n) ==
    CheckDegrees(CheckDegrees(direction, 22500000), n * Deg(45))

\* centerDir = cardinalDir - 22.5 + (centerX * 0.045), centerX in pixels
CenterDir(cardinalDir, centerX) ==
    cardinalDir - 22500000 + centerX * 45000

\* centres of detected objects across the 1000 pixels of a crop
CenterXs == {0, 250, 500, 750, 1000}

\* starting degrees: every 22.5 degrees, 350 and the last value below 360
Bases == {k * 22500000 : k \in 0..15} \cup {Deg(350), Deg(360) - 1}

\* degrees to be added: every 22.5 degrees up to MaxTurns turns either way,
\* and 10 and 20 degrees either way
Deltas ==
    {k * 22500000 : k \in (-16 * MaxTurns)..(16 * MaxTurns)}
       \cup {Deg(10), Deg(20), -Deg(10), -Deg(20)}

\* the sector boundaries
Boundaries ==
    {cardinalDictionary[k][2] : k \in DOMAIN cardinalDictionary}

\* bearings in [0, 360): every eighth of a degree, every sector boundary and
\* the values one millionth and one thousandth of a degree on either side
\* of it, and 359.999999
SectorInputs ==
    {v \in {k * 125000 : k \in 0..2879}
             \cup {b + d : b \in Boundaries, d \in {-1000, -1, 0, 1, 1000}}
             \cup {Deg(360) - 1} :
        0 <= v /\ v < Deg(360)}

InitAcvml ==
    /\ fcin = << >>
    /\ fpc = << >>
    /\ pc = "acvml"
    /\ error = NoError
    /\ fcdict = << >>
    /\ clusterUUIDlist = << >>
    /\ cidx = 0
    /\ pointdict = << >>
    /\ combinationlist = << >>
    /\ pidx = 0
    /\ objcoorddict = << >>
    /\ rowdata = << >>
    /\ rowdataBound = FALSE
    /\ point = 0
    /\ coordlist = << >>
    /\ response = << >>
    /\ triangulated = << >>
    /\ dbscan = << >>
    /\ firstRun = << >>
    /\ op = "none"
    /\ args = << >>
    /\ result = << >>
    /\ Apart

\* the state of CreatePointClusters, which acvml does not touch
gis == <<fcin, fpc, pc, error, fcdict, clusterUUIDlist, locals, dbscan,
         firstRun>>

\* CheckDegrees(x, y)
CallCheckDegrees ==
    /\ op = "none"
    /\ \E x \in Bases, y \in Deltas :
          /\ args' = <<x, y>>
          /\ result' = CheckDegrees(x, y)
    /\ op' = "CheckDegrees"
    /\ UNCHANGED <<gis, apart>>

\* CheckDegrees(CheckDegrees(x, y), -y)
CallCheckDegreesBack ==
    /\ op = "CheckDegrees"
    /\ result' = CheckDegrees(result, -args[2])
    /\ op' = "CheckDegreesBack"
    /\ UNCHANGED <<args, gis, apart>>

\* CheckCardinality(value)
CallCheckCardinality ==
    /\ op = "none"
    /\ \E value \in SectorInputs :
          /\ args' = <<value>>
          /\ result' = CheckCardinality(value)
    /\ op' = "CheckCardinality"
    /\ UNCHANGED <<gis, apart>>

\* GetDirection(DirectionEasting, DirectionNorthing)
CallGetDirection ==
    /\ op = "none"
    /\ \E v \in DirectionVectors :
          /\ args' = v
          /\ result' = GetDirection(v[1], v[2])
    /\ op' = "GetDirection"
    /\ UNCHANGED <<gis, apart>>

\* UpdateBlobMetadata: dirmov = CheckDegrees(dirsensor, 180), stored as the
\* Direction of the photosphere
PhotosphereDirection ==
    /\ op = "GetDirection"
    /\ result' = CheckDegrees(result, Deg(180))
    /\ op' = "UpdateBlobMetadata"
    /\ UNCHANGED <<args, gis, apart>>

\* ProcessCardinalImages: direction and label of cardinal crop n + 1
CardinalDirection ==
    /\ op = "UpdateBlobMetadata"
    /\ \E n \in 0..7 :
          result' = [Direction      |-> result,
                     CardinalNumber |-> n + 1,
                     cardinalDir    |-> CardinalDir(result, n),
                     cardinalLabel  |->
                        CheckCardinality(CardinalDir(result, n))]
    /\ op' = "CardinalDirection"
    /\ UNCHANGED <<args, gis, apart>>

\* ProcessCardinalImages: direction of an object detected in the crop
ObjectDirection ==
    /\ op = "CardinalDirection"
    /\ \E centerX \in CenterXs :
          result' = [cardinalDir |-> result.cardinalDir,
                     centerX     |-> centerX,
                     centerDir   |-> CenterDir(result.cardinalDir, centerX)]
    /\ op' = "ObjectDirection"
    /\ UNCHANGED <<args, gis, apart>>

NextAcvml ==
    \/ CallCheckDegrees
    \/ CallCheckDegreesBack
    \/ CallCheckCardinality
    \/ CallGetDirection
    \/ PhotosphereDirection
    \/ CardinalDirection
    \/ ObjectDirection

SpecAcvml == InitAcvml /\ [][NextAcvml]_vars

(* C18: for every base in [0, 360) and every delta the degree addition     *)
(* returns a value in [0, 360) that is the sum reduced modulo 360; base    *)
(* 350 and delta 20 give 10.                                               *)

C18_SumReducedModulo360 ==
    op = "CheckDegrees" =>
       /\ 0 <= result /\ result < Deg(360)
       /\ result = (args[1] + args[2]) % Deg(360)
       /\ args = <<Deg(350), Deg(20)>> => result = Deg(10)

(* C19: for every a in [0, 360) and every b, adding b and then adding -b   *)
(* returns a value congruent to a modulo 360.                              *)

C19_AddThenSubtract ==
    op = "CheckDegreesBack" =>
       (result - args[1]) % Deg(360) = 0

\* the first addition wrapped, and the value returned is not a itself
C19_Witness ==
    /\ op = "CheckDegreesBack"
    /\ args[1] + args[2] > Deg(360)
    /\ result # args[1]

\* the intervals [low, high) of the dictionary that contain v
IntervalsContaining(v) ==
    {k \in DOMAIN cardinalDictionary :
        cardinalDictionary[k][2] <= v /\ v < cardinalDictionary[k][3]}

\* the label of the sector of interval k: N for both halves of north
LabelOf(k) ==
    IF k = 1 \/ k = Len(cardinalDictionary) THEN "N"
    ELSE cardinalDictionary[k][1]

(* C20, as stated: every bearing b in [0, 360), sector boundaries          *)
(* included, lies in exactly one interval [low, high) of the dictionary    *)
(* and the label of that interval is returned, N for both [0, 5.625) and   *)
(* [354.375, 360); 0 and 359.999999 get the same label.                    *)

----------------------------------------------------------------------------
(* Bearings of photospheres, crops and detected objects *)

(* C21: the bearing of the zero-length displacement (dx = 0 and dy = 0)    *)
(* is an error: GetDirection signals UndefinedBearing and returns no       *)
(* angle.                                                                  *)

C21_ZeroVectorIsUndefined ==
    (op = "GetDirection" /\ args = <<0, 0>>) => result \notin Int

(* C22: the direction stored for a detected object lies between 0 and 360  *)
(* degrees, for every photosphere direction, every cardinal crop and every *)
(* object centre in [0, 1000] pixels.                                      *)

C22_ObjectDirectionInRange ==
    op = "ObjectDirection" =>
       (0 <= result.centerDir /\ result.centerDir <= Deg(360))

\* the labels CheckCardinality can return
SectorLabels ==
    ({cardinalDictionary[k][1] : k \in DOMAIN cardinalDictionary}
        \ {"N0", "N1"}) \cup {"N"}

(* C28: for every photosphere direction CheckDegrees(GetDirection(..),     *)
(* 180) and each of the 8 crops, the crop direction computed by the two    *)
(* CheckDegrees calls lies in [0, 360] and CheckCardinality returns a      *)
(* sector label for it.                                                    *)

C28_CropDirectionHasSector ==
    op = "CardinalDirection" =>
       /\ 0 <= result.cardinalDir /\ result.cardinalDir <= Deg(360)
       /\ result.cardinalLabel \in SectorLabels

\* a crop direction of exactly 360 degrees, mapped to N
C28_Witness ==
    /\ op = "CardinalDirection"
    /\ result.cardinalDir = Deg(360)
    /\ result.cardinalLabel = "N"

----------------------------------------------------------------------------
(* acvml.CheckBlobContainer: containers of the storage account *)

\* CreatePointClusters is not running
GisIdle ==
    /\ fcin = << >>
    /\ fpc = << >>
    /\ pc = "idle"
    /\ error = NoError
    /\ fcdict = << >>
    /\ clusterUUIDlist = << >>
    /\ cidx = 0
    /\ pointdict = << >>
    /\ combinationlist = << >>
    /\ pidx = 0
    /\ objcoorddict = << >>
    /\ rowdata = << >>
    /\ rowdataBound = FALSE
    /\ point = 0
    /\ coordlist = << >>
    /\ response = << >>
    /\ triangulated = << >>
    /\ dbscan = << >>
    /\ firstRun = << >>

\* no function of acvml has been called
AcvmlIdle ==
    /\ op = "none"
    /\ args = << >>
    /\ result = << >>

\* container names a caller may pass; "None" stands for no name
ContainerNames == {"photospheres", "cardinals", "None"}

\* self.containerName
DefaultContainer == "photospheres"

\* levels of public access
AccessLevels == {"private", "blob", "container"}

\* what the caller passes for create; "omitted" when it passes nothing
CreateArguments == {"omitted", "True", "False"}

\* the signature: def CheckBlobContainer(self, containerName=None,
\* create=True, publicAccess='blob')
CreateOf(create) == IF create = "omitted" THEN "True" ELSE create

\* if containerName is None: container = self.containerName
ContainerOf(containerName) ==
    IF containerName = "None" THEN DefaultContainer ELSE containerName

\* a container is absent (<< >>) or has a level of access and blobs
Containers ==
    {<< >>} \cup
    {<<[public_access |-> a, blobs |-> b]>> :
        a \in AccessLevels, b \in {"none", "some"}}

InitBlob ==
    /\ GisIdle
    /\ AcvmlIdle
    /\ account \in [ContainerNames \ {"None"} -> Containers]
    /\ gdb = << >>
    /\ metaString = << >>
    /\ ncard = 0
    /\ cardinalMeta = << >>

CheckBlobContainer ==
    /\ \E containerName \in ContainerNames, create \in CreateArguments,
          publicAccess \in {"blob", "container"} :
          LET container == ContainerOf(containerName)
          IN /\ args' = <<containerName, create, publicAccess>>
             /\ IF account[container] # << >>
                THEN \* set_container_acl(container, public_access)
                     account' = [account EXCEPT
                                   ![container][1].public_access = publicAccess]
                ELSE IF CreateOf(create) = "True"
                THEN \* create_container(container, public_access)
                     account' = [account EXCEPT
                                   ![container] =
                                      <<[public_access |-> publicAccess,
                                         blobs |-> "none"]>>]
                ELSE UNCHANGED account
    /\ op' = "CheckBlobContainer"
    /\ UNCHANGED <<result, gis, gdb, metaString, ncard, cardinalMeta>>

NextBlob ==
    \/ CheckBlobContainer

SpecBlob == InitBlob /\ [][NextBlob]_vars

\* a call without create leaves an account without the container alone, a
\* container is created only under create=True, and an existing container
\* only has its public access set
CheckBlobContainerFrame ==
    op' = "CheckBlobContainer" =>
       LET container == ContainerOf(args'[1])
       IN /\ \A c \in DOMAIN account :
                c # container => account'[c] = account[c]
          /\ (account[container] = << >> /\ args'[2] = "omitted") =>
                account' = account
          /\ (account[container] = << >> /\ account'[container] # << >>) =>
                args'[2] = "True"
          /\ account[container] # << >> =>
                /\ account'[container] # << >>
                /\ account'[container][1].blobs = account[container][1].blobs

(* C23: CheckBlobContainer called without a create argument does not       *)
(* create a container that does not exist and leaves the storage account   *)
(* unchanged; a container is created only when the caller passes           *)
(* create=True, and an existing container only has its public access set.  *)

C23_NoCreateByDefault == [][CheckBlobContainerFrame]_vars

----------------------------------------------------------------------------
(* acvgis.CreateDatasets: feature datasets of the project geodatabase *)

\* dlist
dlist == <<"Photospheres", "Cardinals", "StopSigns", "FireHydrants">>

\* a dataset is absent, empty or holds feature classes
DatasetStates == {"absent", "empty", "filled"}

\* what the caller passes for recreate; "omitted" when it passes nothing
RecreateArguments == {"omitted", "True", "False"}

\* the signature: def CreateDatasets(self, recreate=False)
RecreateOf(recreate) == IF recreate = "omitted" THEN "False" ELSE recreate

\* the branch of an existing dataset taken whatever recreate is
DeletesAlways(exists, recreate) == exists

\* elif d in prjdatasets and recreate is True: Delete_management
Deletes(exists, recreate) == exists /\ RecreateOf(recreate) = "True"

\* if d not in prjdatasets: CreateFeatureDataset_management; the same after
\* the deletion
Creates(exists, recreate) == ~exists \/ Deletes(exists, recreate)

InitDatasets ==
    /\ GisIdle
    /\ AcvmlIdle
    /\ account = << >>
    /\ gdb \in [SeqRange(dlist) -> DatasetStates]
    /\ metaString = << >>
    /\ ncard = 0
    /\ cardinalMeta = << >>

\* result lists the operations performed in the geodatabase
CreateDatasets ==
    /\ \E recreate \in RecreateArguments :
          LET prjdatasets == {d \in DOMAIN gdb : gdb[d] # "absent"}
          IN /\ args' = <<recreate>>
             /\ gdb' = [d \in DOMAIN gdb |->
                          IF Creates(d \in prjdatasets, recreate)
                          THEN "empty" ELSE gdb[d]]
             /\ result' =
                   [deleted |-> {d \in DOMAIN gdb :
                                    Deletes(d \in prjdatasets, recreate)},
                    created |-> {d \in DOMAIN gdb :
                                    Creates(d \in prjdatasets, recreate)}]
    /\ op' = "CreateDatasets"
    /\ UNCHANGED <<gis, account, metaString, ncard, cardinalMeta>>

NextDatasets ==
    \/ CreateDatasets

SpecDatasets == InitDatasets /\ [][NextDatasets]_vars

\* the effect of a call on the datasets
CreateDatasetsEffect ==
    op' = "CreateDatasets" =>
       \A d \in SeqRange(dlist) :
          /\ gdb'[d] # "absent"
          /\ gdb[d] # "absent" =>
                IF args'[1] = "True"
                THEN d \in result'.deleted /\ gdb'[d] = "empty"
                ELSE d \notin result'.deleted /\ gdb'[d] = gdb[d]
          /\ gdb[d] = "absent" => d \notin result'.deleted

(* C24: after CreateDatasets(recreate) all four feature datasets exist,    *)
(* whatever datasets existed before; a dataset that existed is deleted and *)
(* re-created, losing its contents, if and only if recreate is True, and   *)
(* is left unchanged otherwise (recreate False or omitted).                *)

C24_DatasetsExistAfterwards == [][CreateDatasetsEffect]_vars

\* a call with recreate=True has deleted a dataset and created one that was
\* absent
C24_Witness ==
    /\ op = "CreateDatasets"
    /\ args = <<"True">>
    /\ result.deleted # {}
    /\ result.created \ result.deleted # {}
    /\ \A d \in SeqRange(dlist) : gdb[d] = "empty"

----------------------------------------------------------------------------
(* Independence of the clusters *)

\* the pair estimates of the rows pd alone, in the order of the pair loop
OwnEstimates(pd) ==
    [k \in DOMAIN Combinations(Len(pd)) |->
        PairEstimate(pd[Combinations(Len(pd))[k][1]],
                     pd[Combinations(Len(pd))[k][2]])]

\* the record of cluster u computed from the rows of u and nothing else
OwnRecord(u) ==
    LET pd == SelectRows(fpc, u)
    IN ClusterStatistics(pd[Len(pd)].OBJECTID1, u,
                         RowData(pd, OwnEstimates(pd)))

\* the record of a cluster of two or more rows is the one its rows give
RecordsOfPairedClustersAreOwn ==
    \A k \in DOMAIN response :
       Cardinality(MemberRows(response[k].cluster)) >= 2 =>
          response[k] = OwnRecord(response[k].cluster)

(* C25: the record emitted for a cluster is a function of the cluster's    *)
(* own observations only: its point id and every sample it is computed    *)
(* from belong to members of the cluster, and it is the record computed    *)
(* from the rows of the cluster alone.                                     *)

C25_RecordFromOwnMembersOnly ==
    \A k \in DOMAIN response :
       LET u == response[k].cluster
       IN /\ response[k].point \in MemberOIDs(u)
          /\ \A n \in DOMAIN response[k].samples :
                {response[k].samples[n][1].OID,
                 response[k].samples[n][1].pairOID1,
                 response[k].samples[n][1].pairOID2} \subseteq MemberOIDs(u)
          /\ Cardinality(MemberRows(u)) >= 2 => response[k] = OwnRecord(u)

----------------------------------------------------------------------------
(* Identifier assignment on a labelling without noise *)

(* C27: the identifier-assignment step completes without error for every   *)
(* label assignment the clustering primitive can return, the assignments   *)
(* without a noise label -1 included: it never ends in a ValueError.        *)

C27_IdentifierStepCompletes == error.kind # "ValueError"

----------------------------------------------------------------------------
(* Clusters of two observations *)

\* the records of clusters of exactly two rows
PairClusterRecords ==
    {k \in DOMAIN response : Cardinality(MemberRows(response[k].cluster)) = 2}

\* the single pairwise estimate of a cluster of two rows
SingleEstimate(u) ==
    PairEstimate(SelectRows(fpc, u)[1], SelectRows(fpc, u)[2])

(* C30: the aggregate of a cluster of exactly two observations with         *)
(* non-parallel bearings has standard deviation 0 for the object latitude,  *)
(* the object longitude, the driving distance and the bearing, and these    *)
(* means are the values of the single pairwise estimate.                    *)

C30_TwoObservationsOneEstimate ==
    \A k \in PairClusterRecords :
       LET c == response[k]
           pd == SelectRows(fpc, c.cluster)
           e == SingleEstimate(c.cluster)
       IN ~ParallelBearings(pd[1].ObjectDirection, pd[2].ObjectDirection) =>
             /\ c.LatObjStd = 0
             /\ c.LonObjStd = 0
             /\ c.DrivDistStd = 0
             /\ c.ObjDirStd = 0
             /\ c.LatObjMean = e.LatObject
             /\ c.LonObjMean = e.LonObject
             /\ c.DrivDistMean = e.DrivingDistance
             /\ c.ObjDirMean = e.MeanObjDir

\* a cluster of two rows with different, non-parallel bearings at different
\* distances from the object has been aggregated
C30_Witness ==
    \E k \in PairClusterRecords :
       LET pd == SelectRows(fpc, response[k].cluster)
           e == SingleEstimate(response[k].cluster)
       IN /\ ~ParallelBearings(pd[1].ObjectDirection, pd[2].ObjectDirection)
          /\ e.ObjDistanceOID1 # e.ObjDistanceOID2
          /\ e.DrivingDistance > 0
          /\ response[k].samples[1][1].pairOID1 = pd[1].OBJECTID1
          /\ response[k].samples[1][1].pairOID2 = pd[2].OBJECTID1

----------------------------------------------------------------------------
(* acvml: the loop of ProcessCardinalImages over the 8 cardinal crops      *)

MaxObjects == 1

\* areas: 8 crops of 1000 pixels
NumberOfAreas == 8

\* Direction of the photosphere metadata, float(metaString['Direction'])
PhotosphereDirections == {Deg(0), 337500000}

\* the lists of at most n items of S
ListsOf(S, n) == UNION {[1..k -> S] : k \in 0..n}

\* what the analysis of a crop returns
ObjectLabels == {"stop sign", "fire hydrant"}
DetectedObjects == [object : ObjectLabels, centerX : {250}]
TagLists == ListsOf({"outdoor"}, 1)
CategoryLists == ListsOf({"outdoor_road"}, 1)
CaptionLists == ListsOf({"a sign on a pole"}, 1)
Responses ==
    [objects : ListsOf(DetectedObjects, MaxObjects),
     tags : TagLists,
     categories : CategoryLists,
     captions : CaptionLists]

\* the keys <name>1, <name>2, ... of a dict after cmeta['<name>{n+1}'] = new[n]
\* for every item of new: keys beyond len(new) keep what they held
SetNumbered(old, new) ==
    [n \in 1..(IF Len(old) > Len(new) THEN Len(old) ELSE Len(new)) |->
        IF n <= Len(new) THEN new[n] ELSE old[n]]

\* str(v) of a number
StrOfNumber(v) == <<"str", v>>

\* cardinalMetaBlob[key] = str(cmeta[key]) for every key of cmeta
CardinalMetaBlob(cmeta) ==
    [Direction |-> StrOfNumber(cmeta.Direction),
     CardinalNumber |-> StrOfNumber(cmeta.CardinalNumber[1]),
     CardinalDirection |-> StrOfNumber(cmeta.CardinalDirection[1]),
     CardinalDirectionLabel |-> cmeta.CardinalDirectionLabel[1],
     Caption |-> cmeta.Caption,
     NumberOfCategories |-> StrOfNumber(cmeta.NumberOfCategories[1]),
     CategoryName |-> cmeta.CategoryName,
     NumberOfTags |-> StrOfNumber(cmeta.NumberOfTags[1]),
     TagName |-> cmeta.TagName,
     NumberOfObjects |-> StrOfNumber(cmeta.NumberOfObjects[1]),
     Object |-> cmeta.Object,
     ObjectDirection |->
         [n \in DOMAIN cmeta.ObjectDirection |->
             StrOfNumber(cmeta.ObjectDirection[n])]]

\* the start of ProcessCardinalImages: metaString is the metadata of the
\* photosphere; a key the dict does not hold is << >>, numbered keys are the
\* items of a sequence
InitCardinal ==
    /\ GisIdle
    /\ AcvmlIdle
    /\ account = << >>
    /\ gdb = << >>
    /\ \E d \in PhotosphereDirections :
          metaString = [Direction |-> d,
                        CardinalNumber |-> << >>,
                        CardinalDirection |-> << >>,
                        CardinalDirectionLabel |-> << >>,
                        Caption |-> << >>,
                        NumberOfCategories |-> << >>,
                        CategoryName |-> << >>,
                        NumberOfTags |-> << >>,
                        TagName |-> << >>,
                        NumberOfObjects |-> << >>,
                        Object |-> << >>,
                        ObjectDirection |-> << >>]
    /\ ncard = 0
    /\ cardinalMeta = << >>

\* one turn of `for ncard, area in enumerate(areas)`: cmeta = metaString makes
\* cmeta the same dict as metaString, so every assignment to cmeta is an
\* assignment to metaString and stays for the next crop
CardinalImage ==
    /\ op \in {"none", "CardinalImage"}
    /\ ncard < NumberOfAreas
    /\ \E responsejson \in Responses :
          LET cardinalDir == CardinalDir(metaString.Direction, ncard)
              cmeta ==
                [metaString EXCEPT
                   !.CardinalNumber = <<ncard + 1>>,
                   !.CardinalDirection = <<cardinalDir>>,
                   !.CardinalDirectionLabel = <<CheckCardinality(cardinalDir)>>,
                   !.Caption = IF responsejson.captions # << >>
                               THEN <<responsejson.captions[1]>> ELSE @,
                   !.NumberOfCategories = <<Len(responsejson.categories)>>,
                   !.CategoryName = SetNumbered(@, responsejson.categories),
                   !.NumberOfTags = <<Len(responsejson.tags)>>,
                   !.TagName = SetNumbered(@, responsejson.tags),
                   !.NumberOfObjects = <<Len(responsejson.objects)>>,
                   !.Object = SetNumbered(@,
                       [n \in DOMAIN responsejson.objects |->
                           responsejson.objects[n].object]),
                   !.ObjectDirection = SetNumbered(@,
                       [n \in DOMAIN responsejson.objects |->
                           CenterDir(cardinalDir,
                                     responsejson.objects[n].centerX)])]
          IN /\ metaString' = cmeta
             /\ cardinalMeta' = <<CardinalMetaBlob(cmeta)>>
             /\ result' = responsejson
    /\ ncard' = ncard + 1
    /\ op' = "CardinalImage"
    /\ UNCHANGED <<args, gis, account, gdb>>

\* response.raise_for_status() raises: the except clause of the function
\* prints the message and the remaining crops are not processed
AnalysisRaises ==
    /\ op \in {"none", "CardinalImage"}
    /\ ncard < NumberOfAreas
    /\ op' = "HTTPError"
    /\ UNCHANGED <<args, result, gis, account, gdb, metaString, ncard,
                   cardinalMeta>>

NextCardinal ==
    \/ CardinalImage
    \/ AnalysisRaises

SpecCardinal == InitCardinal /\ [][NextCardinal]_vars

\* the keys 1..NumberOfObjects of the stored metadata are those of the crop
NumberedObjectsAreOfTheCrop ==
    op = "CardinalImage" =>
       /\ cardinalMeta[1].NumberOfObjects = StrOfNumber(Len(result.objects))
       /\ \A n \in DOMAIN result.objects :
             cardinalMeta[1].Object[n] = result.objects[n].object

(* C26: the metadata stored for cardinal crop k describes crop k only: it   *)
(* holds Object, TagName, Category and Caption fields only for the items    *)
(* the detection service returned for crop k, never a field of crops        *)
(* 1..k-1 (such as Object1 when crop k has NumberOfObjects = 0).            *)

C26_MetadataOfCropOnly ==
    op = "CardinalImage" =>
       /\ Len(cardinalMeta[1].Object) = Len(result.objects)
       /\ Len(cardinalMeta[1].ObjectDirection) = Len(result.objects)
       /\ cardinalMeta[1].TagName = result.tags
       /\ cardinalMeta[1].CategoryName = result.categories
       /\ cardinalMeta[1].Caption = result.captions

----------------------------------------------------------------------------
(* Step 3 of CreatePointClusters: the object direction of a row            *)

\* the detection fields Object1, Object1Direction, ... of a row (30 in the
\* code)
MaxObjectFields == 3

\* a field value of a cursor row, with its Python type
NullCell == [kind |-> "NoneType", val |-> 0]
StrCell(s) == [kind |-> "str", val |-> s]
FloatCell(v) == [kind |-> "float", val |-> v]
IntCell(v) == [kind |-> "int", val |-> v]

\* a == b of two field values: a string equals no number and no None
PyEq(a, b) == a.kind = b.kind /\ a.val = b.val

\* names of the feature class passed as fpc
FeatureClassNames ==
    {"StopSigns_FPC20", "FireHydrants_FPC20", "Photospheres_FPC20"}

\* if 'StopSigns' in fpc: ... elif 'FireHydrants' in fpc: ...; with neither
\* searchterm is not bound
SearchTermOf(name) ==
    IF name = "StopSigns_FPC20" THEN <<"stop sign">>
    ELSE IF name = "FireHydrants_FPC20" THEN <<"fire hydrant">>
    ELSE << >>

\* the first field that equals the search term sets the last field
MatchingQueryFirst(row, i, term) ==
    LET hits == {j \in i..Len(row) : PyEq(row[j], term)}
    IN IF hits = {} THEN row
       ELSE [row EXCEPT ![Len(row)] =
                row[(CHOOSE j \in hits : \A h \in hits : j <= h) + 1]]

RECURSIVE MatchingQuery(_, _, _)
\* for i in range(len(row)): if row[i] == str(searchterm): row[-1] = row[i+1]
\* from position i on (positions count from 1)
MatchingQuery(row, i, term) ==
    IF i > Len(row) THEN row
    ELSE IF PyEq(row[i], term)
         THEN MatchingQuery([row EXCEPT ![Len(row)] = row[i + 1]], i + 1, term)
         ELSE MatchingQuery(row, i + 1, term)

\* rows of the feature class
FeatureRows == {1, 2}

\* what a detection field ObjectN holds
DetectionLabels == {NullCell, StrCell("stop sign"), StrCell("fire hydrant")}

\* the row under fieldlist: the OID, ObjectN and ObjectNDirection for each N,
\* and ObjectDirection last
CursorRow(oid, labels, objectDirection) ==
    <<IntCell(oid)>>
    \o [k \in 1..(2 * MaxObjectFields) |->
           IF k % 2 = 1 THEN labels[(k + 1) \div 2]
           ELSE IF labels[k \div 2] = NullCell THEN NullCell
                ELSE FloatCell(100 * oid + 10 * (k \div 2))]
    \o <<objectDirection>>

\* the table before step 3: ObjectDirection is null when AddField has just
\* made it, and holds a value when the field was there already
InitStep3 ==
    /\ fcin = << >>
    /\ \E labels \in [FeatureRows -> [1..MaxObjectFields -> DetectionLabels]],
          before \in [FeatureRows -> {NullCell, FloatCell(999)}] :
          fpc = [r \in FeatureRows |-> CursorRow(r, labels[r], before[r])]
    /\ pc = "idle"
    /\ error = NoError
    /\ fcdict = << >>
    /\ clusterUUIDlist = << >>
    /\ cidx = 0
    /\ pointdict = << >>
    /\ combinationlist = << >>
    /\ pidx = 0
    /\ objcoorddict = << >>
    /\ rowdata = << >>
    /\ rowdataBound = FALSE
    /\ point = 0
    /\ coordlist = << >>
    /\ response = << >>
    /\ triangulated = << >>
    /\ dbscan = << >>
    /\ firstRun = << >>
    /\ AcvmlIdle
    /\ Apart

\* step 3 on the feature class called name
GenerateObjectDirections ==
    /\ op = "none"
    /\ \E name \in FeatureClassNames :
          /\ args' = <<name>>
          /\ IF SearchTermOf(name) = << >>
             THEN \* str(searchterm) at the first row: UnboundLocalError
                  /\ op' = "UnboundLocalError"
                  /\ fpc' = fpc
             ELSE /\ op' = "Step3"
                  /\ fpc' = [r \in DOMAIN fpc |->
                               MatchingQuery(fpc[r], 1,
                                             StrCell(SearchTermOf(name)[1]))]
    /\ UNCHANGED <<result, apart, fcin, pc, error, fcdict, clusterUUIDlist,
                   locals, dbscan, firstRun>>

NextStep3 ==
    \/ GenerateObjectDirections

SpecStep3 == InitStep3 /\ [][NextStep3]_vars

\* the numbers N of the detection fields ObjectN of row that equal term
MatchingDetections(row, term) ==
    {n \in 1..MaxObjectFields : PyEq(row[2 * n], StrCell(term))}

\* the effect of step 3 on every row
Step3Effect ==
    op' = "Step3" =>
       \A r \in DOMAIN fpc :
          LET row == fpc[r]
              hits == MatchingDetections(row, SearchTermOf(args'[1])[1])
          IN /\ Len(fpc'[r]) = Len(row)
             /\ \A i \in 1..(Len(row) - 1) : fpc'[r][i] = row[i]
             /\ IF hits = {}
                THEN fpc'[r][Len(row)] = row[Len(row)]
                ELSE fpc'[r][Len(row)] =
                        row[2 * (CHOOSE n \in hits : \A h \in hits : h <= n) + 1]

(* C29: in step 3 a row with at least one detection field ObjectN equal to *)
(* the search term gets ObjectDirection set to the ObjectNDirection of the *)
(* highest-numbered such N, and a row without a matching detection keeps   *)
(* its ObjectDirection.                                                     *)

C29_HighestMatchingDetection == [][Step3Effect]_vars

\* after step 3 a row holds two detections that equal the search term, and
\* another row holds none and had a value in ObjectDirection
C29_Witness ==
    /\ op = "Step3"
    /\ \E r \in DOMAIN fpc :
          /\ Cardinality(MatchingDetections(fpc[r], SearchTermOf(args[1])[1])) >= 2
          /\ fpc[r][Len(fpc[r])].kind = "float"
    /\ \E r \in DOMAIN fpc :
          /\ MatchingDetections(fpc[r], SearchTermOf(args[1])[1]) = {}
          /\ fpc[r][Len(fpc[r])] = FloatCell(999)

====
